---- MODULE Spec2Model ----
(***************************************************************************)
(* Multi-hart bring-up on top of SBI firmware: src/start.rs (_start, the   *)
(* per-hart stack set-up) and src/main.rs (main, handle_dtb, start_harts,  *)
(* debug_print, panic).  Every hart is a sequential process; the shared    *)
(* state is the three statics STARTED, DEVTREE and NCPU, and the firmware  *)
(* (hart state management and console).                                    *)
(***************************************************************************)
EXTENDS Integers, Sequences, FiniteSets, TLC

\* ---------------------------------------------------------------- bounds
\* physical harts of the platform have ids 0 .. MaxHarts-1
MaxHarts == 4
\* largest number of cpu nodes a device tree of the model holds
MaxCpus == 4
\* firmware boots between 1 and MaxBooted harts itself
MaxBooted == 2
\* the linker places the static stack pool at 16 * StackBaseUnits
StackBaseUnits == 1
\* driver of handle_dtb: callers 0 .. MaxCallers-1, MaxCalls calls in all
MaxCallers == 2
MaxCalls == 3

\* ------------------------------------------------------ program constants
\* start.rs: const NCPU (the name NCPU is kept for the static of main.rs)
StackNCPU == 3
STKSZ == 1024 * 64
\* main.rs: String<0xFF>
Capacity == 255
\* #[repr(align(16), C)]
StackAlign == 16
\* static mut STACK0: the address of the pool, a multiple of its alignment
STACK0 == StackAlign * StackBaseUnits

Harts == 0 .. (MaxHarts - 1)
Callers == 0 .. (MaxCallers - 1)

\* pointers: 0 is the null pointer, the others hold a device tree blob
DtbPtrs == 1 .. 2
Ptrs == {0} \cup DtbPtrs
\* the pointer firmware hands to the harts it boots (register a1)
FwDtb == 1
\* the address of the symbol _start
StartAddr == "_start"

\* lengths of the "model" property of the device tree root
ModelLens == {16, 248, 300}

BadBlob == [ok |-> FALSE, ncpus |-> 0, nregions |-> 0, modelLen |-> 0]
GoodBlobs == [ok : {TRUE}, ncpus : 1 .. MaxCpus, nregions : 0 .. 1, modelLen : ModelLens]
Blobs == GoodBlobs \cup {BadBlob}
\* the blobs the handle_dtb driver draws from
DriverBlobs == {BadBlob} \cup {b \in GoodBlobs : b.modelLen = 16 /\ b.ncpus \in {1, 2} /\ b.nregions = 1}

NoDt == [ok |-> FALSE, ncpus |-> 0, nregions |-> 0, modelLen |-> 0 - 1]
NoMsg == [id |-> "none", arg |-> 0 - 1, file |-> "", line |-> 0 - 1, frags |-> <<>>, sz |-> 0]
\* PanicInfo::location(): Some(file, line) or None
NoLoc == [some |-> FALSE, file |-> "", line |-> 0 - 1]
NoPanic == [msg |-> "none", arg |-> 0 - 1, loc |-> NoLoc]
\* SbiRet.error of a console_write: success or any failure
SbiRets == {"ok", "err"}
NoIter == [start |-> 0, end |-> 0]

VARIABLES STARTED, DEVTREE, NCPU, pc, a0, a1, sp, hartid, dtb, cas, dt, iter, panicinfo, console, reqs, parsed, blobAt, calls, console_ret

vars == <<STARTED, DEVTREE, NCPU, pc, a0, a1, sp, hartid, dtb, cas, dt, iter, panicinfo, console, reqs, parsed, blobAt, calls, console_ret>>

shared == <<STARTED, DEVTREE, NCPU>>
regs == <<a0, a1, sp>>
platform == <<blobAt>>

\* ------------------------------------------------------------ formatting
RECURSIVE Sum(_)
Sum(s) == IF s = <<>> THEN 0 ELSE Head(s) + Sum(Tail(s))

Digits(n) == IF n < 10 THEN 1 ELSE IF n < 100 THEN 2 ELSE IF n < 1000 THEN 3 ELSE 4

\* a formatter that cuts the text at the capacity, byte by byte
RECURSIVE write_trunc(_, _)
write_trunc(len, frags) ==
    IF frags = <<>> THEN len
    ELSE IF len + Head(frags) > Capacity THEN Capacity
    ELSE write_trunc(len + Head(frags), Tail(frags))

\* write!(&mut message, ...) into heapless String<0xFF>: every fragment
\* (literal piece or rendered argument) arrives in a write_str call, which is
\* push_str: it appends the whole fragment or nothing, and the first
\* failure ends the formatting (the result is discarded by let _ =)
RECURSIVE write(_, _)
write(len, frags) ==
    IF frags = <<>> THEN len
    ELSE IF len + Head(frags) > Capacity THEN len
    ELSE write(len + Head(frags), Tail(frags))

\* the request sbi_rt::console_write(Physical::new(sz, addr, 0)) of a message
Msg(id, arg, file, line, frags) ==
    [id |-> id, arg |-> arg, file |-> file, line |-> line, frags |-> frags, sz |-> write(0, frags)]

\* a debug_print! that looks at the SbiRet of the console write
after_ecall_checked(h, to, r) ==
    IF r = "ok" THEN pc' = [pc EXCEPT ![h] = to] ELSE pc' = [pc EXCEPT ![h] = "halt"]
\* sbi_rt::console_write(ptr); the SbiRet is dropped and the caller goes on
after_ecall(h, to, r) == pc' = [pc EXCEPT ![h] = to]

\* debug_print!: format, then the console write; firmware answers with any
\* SbiRet (console_ret keeps the last answer); the caller continues at to
debug_print(h, to, m) ==
    /\ console' = [console EXCEPT ![h] = m]
    /\ \E r \in SbiRets :
        /\ console_ret' = r
        /\ after_ecall(h, to, r)

\* -------------------------------------------------------------- start.rs
StackTop_nomul(base, id) == base + STKSZ
StackTop(base, id) == base + STKSZ * (id + 1)

\* la sp, STACK0; li a2, STKSZ; addi a3, a0, 1; mul a2, a2, a3; add sp, sp, a2; call main
_start(h) ==
    /\ pc[h] = "_start"
    /\ sp' = [sp EXCEPT ![h] = StackTop(STACK0, a0[h])]
    /\ hartid' = [hartid EXCEPT ![h] = a0[h]]
    /\ dtb' = [dtb EXCEPT ![h] = a1[h]]
    /\ pc' = [pc EXCEPT ![h] = "main"]
    /\ UNCHANGED <<shared, a0, a1, cas, dt, iter, panicinfo, console, reqs, parsed, platform, calls, console_ret>>

\* --------------------------------------------------------------- main.rs
\* AtomicBool::compare_exchange(current, new): <<result, value stored>>
compare_exchange_blind(val, current, new) == <<"Ok", new>>
compare_exchange(val, current, new) ==
    IF val = current THEN <<"Ok", new>> ELSE <<"Err", val>>

main_both_boot(h, r) == IF r = "Ok" THEN "banner1" ELSE "banner1"
main_branch(h, r) == IF r = "Ok" THEN "banner1" ELSE "secondary"

\* match STARTED.compare_exchange(false, true, SeqCst, SeqCst)
main(h) ==
    /\ pc[h] = "main"
    /\ LET r == compare_exchange(STARTED, FALSE, TRUE) IN
        /\ STARTED' = r[2]
        /\ cas' = [cas EXCEPT ![h] = r[1]]
        /\ pc' = [pc EXCEPT ![h] = main_branch(h, r[1])]
    /\ UNCHANGED <<DEVTREE, NCPU, regs, hartid, dtb, dt, iter, panicinfo, console, reqs, parsed, platform, calls, console_ret>>

print_frame == <<shared, regs, hartid, dtb, cas, dt, iter, panicinfo, reqs, parsed, platform, calls>>

\* debug_print!("\n\n\n")
banner1(h) ==
    /\ pc[h] = "banner1"
    /\ debug_print(h, "banner2", Msg("banner", 0 - 1, "", 0 - 1, <<3>>))
    /\ UNCHANGED print_frame

\* debug_print!("Hack the planet!\n")
banner2(h) ==
    /\ pc[h] = "banner2"
    /\ debug_print(h, "banner3", Msg("hack", 0 - 1, "", 0 - 1, <<17>>))
    /\ UNCHANGED print_frame

\* debug_print!("Boot hart: {}\n\n", hartid); handle_dtb(dtb) is entered next
banner3(h) ==
    /\ pc[h] = "banner3"
    /\ debug_print(h, "call_once", Msg("boot_hart", hartid[h], "", 0 - 1, <<11, Digits(hartid[h]), 2>>))
    /\ UNCHANGED print_frame

\* Fdt::from_ptr: a null pointer or a malformed blob is an Err
from_ptr(ptr) == IF ptr = 0 THEN BadBlob ELSE blobAt[ptr]

\* a panic that takes every running hart into the panic handler
raise_all(h, msg, arg, line) ==
    /\ panicinfo' = [g \in Harts |-> IF pc[g] # "off" THEN [msg |-> msg, arg |-> arg, loc |-> [some |-> TRUE, file |-> "src/main.rs", line |-> line]] ELSE panicinfo[g]]
    /\ pc' = [g \in Harts |-> IF pc[g] # "off" THEN "panic" ELSE pc[g]]
\* the panic handler is entered with the message and the line of the panic
raise(h, msg, arg, line) ==
    /\ panicinfo' = [panicinfo EXCEPT ![h] = [msg |-> msg, arg |-> arg, loc |-> [some |-> TRUE, file |-> "src/main.rs", line |-> line]]]
    /\ pc' = [pc EXCEPT ![h] = "panic"]

once_runs_always(status) == status \in {"Incomplete", "Complete"}
once_runs(status) == status = "Incomplete"

\* DEVTREE.call_once(..): the caller that finds the cell Incomplete marks it
\* Running and runs the closure; a caller that finds it Complete takes the
\* stored value; a caller that finds it Running spins
call_once(h) ==
    /\ pc[h] = "call_once"
    /\ DEVTREE.status # "Running"
    /\ IF once_runs(DEVTREE.status)
       THEN /\ DEVTREE' = [DEVTREE EXCEPT !.status = "Running"]
            /\ pc' = [pc EXCEPT ![h] = "closure"]
            /\ dt' = dt
       ELSE /\ dt' = [dt EXCEPT ![h] = DEVTREE.data]
            /\ pc' = [pc EXCEPT ![h] = "dt_info"]
            /\ DEVTREE' = DEVTREE
    /\ UNCHANGED <<STARTED, NCPU, regs, hartid, dtb, cas, iter, panicinfo, console, reqs, parsed, platform, calls, console_ret>>

\* || unsafe { Fdt::from_ptr(dtb).expect("Unable to parse device tree") }
\* a panic never unwinds (panic is loop {}), so the cell stays Running
closure(h) ==
    /\ pc[h] = "closure"
    /\ parsed' = Append(parsed, dtb[h])
    /\ LET r == from_ptr(dtb[h]) IN
        IF r.ok
        THEN /\ DEVTREE' = [status |-> "Complete", data |-> r]
             /\ dt' = [dt EXCEPT ![h] = r]
             /\ pc' = [pc EXCEPT ![h] = "dt_info"]
             /\ panicinfo' = panicinfo
        ELSE /\ raise(h, "Unable to parse device tree", 0 - 1, 61)
             /\ UNCHANGED <<DEVTREE, dt>>
    /\ UNCHANGED <<STARTED, NCPU, regs, hartid, dtb, cas, iter, console, reqs, platform, calls, console_ret>>

no_dram_never(d) == FALSE
\* dt.memory().regions().next() is None
no_dram(d) == d.nregions = 0

\* dt.root().model(); dt.cpus().count();
\* dt.memory().regions().next().map(..).expect("Unable to locate DRAM start")
dt_info(h) ==
    /\ pc[h] = "dt_info"
    /\ IF no_dram(dt[h])
       THEN raise(h, "Unable to locate DRAM start", 0 - 1, 71)
       ELSE /\ pc' = [pc EXCEPT ![h] = "info1"]
            /\ panicinfo' = panicinfo
    /\ UNCHANGED <<shared, regs, hartid, dtb, cas, dt, iter, console, reqs, parsed, platform, calls, console_ret>>

cpus_count_fixed(d) == StackNCPU
\* let ncpus = dt.cpus().count()
cpus_count(d) == d.ncpus

\* debug_print!("Device tree info:\n")
info1(h) ==
    /\ pc[h] = "info1"
    /\ debug_print(h, "info2", Msg("dt_header", 0 - 1, "", 0 - 1, <<18>>))
    /\ UNCHANGED print_frame

\* debug_print!("Model: {}\n", model)
info2(h) ==
    /\ pc[h] = "info2"
    /\ debug_print(h, "info3", Msg("model", 0 - 1, "", 0 - 1, <<7, dt[h].modelLen, 1>>))
    /\ UNCHANGED print_frame

\* debug_print!("No. CPUs: {}\n", ncpus)
info3(h) ==
    /\ pc[h] = "info3"
    /\ debug_print(h, "info4", Msg("ncpus", cpus_count(dt[h]), "", 0 - 1, <<10, Digits(cpus_count(dt[h])), 1>>))
    /\ UNCHANGED print_frame

\* debug_print!("DRAM start: {:p}\n", mem)
info4(h) ==
    /\ pc[h] = "info4"
    /\ debug_print(h, "store", Msg("dram", 0 - 1, "", 0 - 1, <<12, 10, 1>>))
    /\ UNCHANGED print_frame

\* NCPU.store(ncpus, Ordering::SeqCst); handle_dtb returns
store(h) ==
    /\ pc[h] = "store"
    /\ NCPU' = cpus_count(dt[h])
    /\ pc' = [pc EXCEPT ![h] = "ret_handle_dtb"]
    /\ UNCHANGED <<STARTED, DEVTREE, regs, hartid, dtb, cas, dt, iter, panicinfo, console, reqs, parsed, platform, calls, console_ret>>

\* main, after handle_dtb(dtb): debug_print!("\n"); start_harts(hartid)
main_nl(h) ==
    /\ pc[h] = "ret_handle_dtb"
    /\ debug_print(h, "start_harts", Msg("nl", 0 - 1, "", 0 - 1, <<1>>))
    /\ UNCHANGED print_frame

range_from_one(n) == [start |-> 1, end |-> n]
\* 0..NCPU.load(Ordering::SeqCst)
range(n) == [start |-> 0, end |-> n]

\* for h in 0..NCPU.load(Ordering::SeqCst)
start_harts(h) ==
    /\ pc[h] = "start_harts"
    /\ iter' = [iter EXCEPT ![h] = range(NCPU)]
    /\ pc' = [pc EXCEPT ![h] = "for"]
    /\ UNCHANGED <<shared, regs, hartid, dtb, cas, dt, panicinfo, console, reqs, parsed, platform, calls, console_ret>>

is_target_all(t, boothartid) == TRUE
is_target(t, boothartid) == t # boothartid

hart_start_args_dtb(by, t, ptr) == [by |-> by, hartid |-> t, start_addr |-> StartAddr, opaque |-> ptr, ret |-> "pending"]
\* sbi_rt::hart_start(h, _start as usize, 0)
hart_start_args(by, t, ptr) == [by |-> by, hartid |-> t, start_addr |-> StartAddr, opaque |-> 0, ret |-> "pending"]

range_next_stuck(it) == it
\* Range::next: the range without the id it returned
range_next(it) == [it EXCEPT !.start = @ + 1]

\* one iteration of the loop: the next id of the range; the ecall is issued
\* if h != boothartid; the end of the range returns to main, which idles
for_next(h) ==
    /\ pc[h] = "for"
    /\ IF iter[h].start < iter[h].end
       THEN /\ iter' = [iter EXCEPT ![h] = range_next(@)]
            /\ IF is_target(iter[h].start, hartid[h])
               THEN /\ reqs' = Append(reqs, hart_start_args(h, iter[h].start, dtb[h]))
                    /\ pc' = [pc EXCEPT ![h] = "ecall"]
               ELSE /\ reqs' = reqs
                    /\ pc' = pc
       ELSE /\ pc' = [pc EXCEPT ![h] = "wfi"]
            /\ UNCHANGED <<iter, reqs>>
    /\ UNCHANGED <<shared, regs, hartid, dtb, cas, dt, panicinfo, console, parsed, platform, calls, console_ret>>

Pending == {k \in 1 .. Len(reqs) : reqs[k].ret = "pending"}

\* firmware, HSM hart_start succeeds: the stopped target resumes at
\* start_addr with a0 = hartid and a1 = opaque
sbi_hart_start_ok ==
    \E k \in Pending :
        LET t == reqs[k].hartid IN
        /\ t \in Harts
        /\ pc[t] = "off"
        /\ pc' = [pc EXCEPT ![t] = "_start"]
        /\ a0' = [a0 EXCEPT ![t] = t]
        /\ a1' = [a1 EXCEPT ![t] = reqs[k].opaque]
        /\ reqs' = [reqs EXCEPT ![k].ret = "ok"]
        /\ UNCHANGED <<shared, sp, hartid, dtb, cas, dt, iter, panicinfo, console, parsed, platform, calls, console_ret>>

\* firmware, HSM hart_start fails: invalid hartid, target already started,
\* or any other failure the firmware reports
sbi_hart_start_err ==
    \E k \in Pending :
        /\ reqs' = [reqs EXCEPT ![k].ret = "err"]
        /\ UNCHANGED <<shared, regs, pc, hartid, dtb, cas, dt, iter, panicinfo, console, parsed, platform, calls, console_ret>>

on_err_continue(h, t) == /\ pc' = [pc EXCEPT ![h] = "for"]
                         /\ panicinfo' = panicinfo
\* .unwrap_or_else(|_| panic!("Failed to start hart {}", h))
on_err(h, t) == raise(h, "Failed to start hart {}", t, 111)

ret_ready_nowait(r) == TRUE
\* the ecall is synchronous: the caller resumes when firmware has answered
ret_ready(r) == r # "pending"

\* .into_result() of the returned SbiRet
hart_start_ret(h) ==
    /\ pc[h] = "ecall"
    /\ \E k \in 1 .. Len(reqs) :
        /\ k = Len(reqs)
        /\ reqs[k].by = h
        /\ ret_ready(reqs[k].ret)
        /\ IF reqs[k].ret # "err"
           THEN /\ pc' = [pc EXCEPT ![h] = "for"]
                /\ panicinfo' = panicinfo
           ELSE on_err(h, reqs[k].hartid)
    /\ UNCHANGED <<shared, regs, hartid, dtb, cas, dt, iter, console, reqs, parsed, platform, calls, console_ret>>

\* Err(_) => debug_print!("Hart {} starting...\n", hartid); then loop { wfi }
secondary(h) ==
    /\ pc[h] = "secondary"
    /\ debug_print(h, "wfi", Msg("starting", hartid[h], "", 0 - 1, <<5, Digits(hartid[h]), 13>>))
    /\ UNCHANGED print_frame

MsgLen(info) ==
    IF info.msg = "Failed to start hart {}" THEN <<21, Digits(info.arg)>>
    ELSE IF info.msg = "Unable to parse device tree" THEN <<27, 2, 8>>
    ELSE <<27>>

FileLen(file) == IF file = "src/main.rs" THEN 11 ELSE IF file = "{unknown}" THEN 9 ELSE 80

loc_file_empty(info) == IF info.loc.some THEN info.loc.file ELSE ""
\* info.location().map(|loc| loc.file()).unwrap_or("{unknown}")
loc_file(info) == IF info.loc.some THEN info.loc.file ELSE "{unknown}"
\* info.location().map(|loc| loc.line()).unwrap_or(0)
loc_line(info) == IF info.loc.some THEN info.loc.line ELSE 0

\* debug_print!("{} in {} at line {}\n", message, file, line); loop {}
panic(h) ==
    /\ pc[h] = "panic"
    /\ LET file == loc_file(panicinfo[h])
           line == loc_line(panicinfo[h]) IN
        debug_print(h, "halt", Msg(panicinfo[h].msg, panicinfo[h].arg, file, line,
                    MsgLen(panicinfo[h]) \o <<4, FileLen(file), 9, Digits(line), 1>>))
    /\ UNCHANGED print_frame

\* ------------------------------------------------------------------ boot
TypeInit ==
    /\ STARTED = FALSE
    /\ DEVTREE = [status |-> "Incomplete", data |-> NoDt]
    /\ NCPU = 0
    /\ sp = [h \in Harts |-> 0]
    /\ cas = [h \in Harts |-> "none"]
    /\ dt = [h \in Harts |-> NoDt]
    /\ iter = [h \in Harts |-> NoIter]
    /\ console = [h \in Harts |-> NoMsg]
    /\ reqs = <<>>
    /\ parsed = <<>>
    /\ console_ret = "ok"

\* firmware boots a set of 1 to MaxBooted harts at _start, each with a0 = its
\* hartid and a1 = the device tree pointer; the other harts stay stopped
Init ==
    /\ TypeInit
    /\ panicinfo = [h \in Harts |-> NoPanic]
    /\ hartid = [h \in Harts |-> 0]
    /\ dtb = [h \in Harts |-> 0]
    /\ calls = [h \in Harts |-> 0]
    /\ \E b \in Blobs : blobAt = [p \in DtbPtrs |-> b]
    /\ \E on \in {b \in SUBSET Harts : Cardinality(b) \in 1 .. MaxBooted} :
        /\ pc = [h \in Harts |-> IF h \in on THEN "_start" ELSE "off"]
        /\ a0 = [h \in Harts |-> h]
        /\ a1 = [h \in Harts |-> IF h \in on THEN FwDtb ELSE 0]

\* the steps of hart h
HartNext(h) ==
    \/ _start(h)
    \/ main(h)
    \/ banner1(h)
    \/ banner2(h)
    \/ banner3(h)
    \/ call_once(h)
    \/ closure(h)
    \/ dt_info(h)
    \/ info1(h)
    \/ info2(h)
    \/ info3(h)
    \/ info4(h)
    \/ store(h)
    \/ main_nl(h)
    \/ start_harts(h)
    \/ for_next(h)
    \/ hart_start_ret(h)
    \/ secondary(h)
    \/ panic(h)

Next ==
    \/ \E h \in Harts : HartNext(h)
    \/ sbi_hart_start_ok
    \/ sbi_hart_start_err

Spec == Init /\ [][Next]_vars

\* a started hart keeps executing its instruction stream and firmware
\* answers every hart_start ecall: the system does not stop while a hart or
\* firmware has a step to take
\* the length of the model name only sizes one console message, so the fair
\* runs take the boots with a model name that fits the buffer
InitFair == Init /\ blobAt[FwDtb].modelLen <= 16
FairSpec == InitFair /\ [][Next]_vars /\ WF_vars(Next)

\* ------------------------------------------------- driver of handle_dtb
\* handle_dtb applied by MaxCallers concurrent callers, MaxCalls times in
\* all, to any pointers (null included) over any two blobs
call(h) ==
    /\ pc[h] \in {"caller", "ret_handle_dtb"}
    /\ Sum([k \in 1 .. MaxCallers |-> calls[k - 1]]) < MaxCalls
    /\ \E p \in Ptrs : dtb' = [dtb EXCEPT ![h] = p]
    /\ calls' = [calls EXCEPT ![h] = @ + 1]
    /\ dt' = [dt EXCEPT ![h] = NoDt]
    /\ pc' = [pc EXCEPT ![h] = "call_once"]
    /\ UNCHANGED <<shared, regs, hartid, cas, iter, panicinfo, console, reqs, parsed, platform, console_ret>>

InitOnce ==
    /\ TypeInit
    /\ panicinfo = [h \in Harts |-> NoPanic]
    /\ blobAt \in [DtbPtrs -> DriverBlobs]
    /\ pc = [h \in Harts |-> IF h \in Callers THEN "caller" ELSE "off"]
    /\ a0 = [h \in Harts |-> h]
    /\ a1 = [h \in Harts |-> 0]
    /\ hartid = [h \in Harts |-> h]
    /\ dtb = [h \in Harts |-> 0]
    /\ calls = [h \in Harts |-> 0]

NextOnce ==
    \E h \in Callers :
        \/ call(h)
        \/ call_once(h)
        \/ closure(h)
        \/ dt_info(h)
        \/ info1(h)
        \/ info2(h)
        \/ info3(h)
        \/ info4(h)
        \/ store(h)
        \/ panic(h)

SpecOnce == InitOnce /\ [][NextOnce]_vars

\* ------------------------------------------------ driver of the panic handler
\* the handler entered on MaxCallers harts with any PanicInfo: the messages
\* of main.rs, raised in main.rs or inside a dependency, with or without a
\* location
PanicMsgs == {"Failed to start hart {}", "Unable to parse device tree", "Unable to locate DRAM start"}
Locs == {NoLoc} \cup [some : {TRUE}, file : {"src/main.rs", "registry/fdt/src/lib.rs"}, line : {61, 111}]
PanicInfos == {[msg |-> m, arg |-> IF m = "Failed to start hart {}" THEN 1 ELSE 0 - 1, loc |-> l] : m \in PanicMsgs, l \in Locs}

InitPanic ==
    /\ TypeInit
    /\ blobAt = [p \in DtbPtrs |-> BadBlob]
    /\ pc = [h \in Harts |-> IF h \in Callers THEN "panic" ELSE "off"]
    /\ a0 = [h \in Harts |-> h]
    /\ a1 = [h \in Harts |-> 0]
    /\ hartid = [h \in Harts |-> h]
    /\ dtb = [h \in Harts |-> 0]
    /\ calls = [h \in Harts |-> 0]
    /\ \E i \in [Callers -> PanicInfos] : panicinfo = [h \in Harts |-> IF h \in Callers THEN i[h] ELSE NoPanic]

NextPanic == \E h \in Callers : panic(h)

SpecPanic == InitPanic /\ [][NextPanic]_vars

\* ================================================================ claims
Ran(h) == pc[h] \notin {"off", "_start"}
Winners == {h \in Harts : cas[h] = "Ok"}
Targets == {reqs[k].hartid : k \in 1 .. Len(reqs)}
\* the ids of lo .. hi-1 other than skip, in ascending order
RECURSIVE Ascending(_, _, _)
Ascending(lo, hi, skip) ==
    IF lo >= hi THEN <<>>
    ELSE IF lo = skip THEN Ascending(lo + 1, hi, skip)
    ELSE <<lo>> \o Ascending(lo + 1, hi, skip)

C1_State ==
    /\ Cardinality(Winners) = (IF STARTED THEN 1 ELSE 0)
    /\ \A h \in Harts : cas[h] = "none" <=> pc[h] \in {"off", "_start", "main"}
    /\ \A h \in Harts : cas[h] \in {"none", "Ok", "Err"}
C1_Step ==
    /\ STARTED => STARTED'
    /\ \A h \in Harts : cas[h] # "none" => cas'[h] = cas[h]
    /\ \A h \in Harts : (cas[h] = "none" /\ cas'[h] = "Ok") => (~STARTED /\ STARTED')
    /\ \A h \in Harts : (cas[h] = "none" /\ cas'[h] = "Err") => STARTED
\* C1: however many harts race main, the compare-exchange on STARTED returns
\* Ok (prior value false) for exactly one hart and Err (prior value true) for
\* every other hart; STARTED goes from false to true once and never back.
C1_ExactlyOneBootHart == [](C1_State) /\ [][C1_Step]_vars
\* two harts raced: one got Ok, the other Err
C1_Witness == \E g, h \in Harts : cas[g] = "Ok" /\ cas[h] = "Err" /\ a1[g] = FwDtb /\ a1[h] = FwDtb

\* C2: over any interleaving of handle_dtb calls on any pointers, the parse
\* (Fdt::from_ptr in the closure of call_once) runs at most once, and every
\* call that gets a device tree gets the one the first parse stored,
\* whatever its own pointer is.
C2_ParseAtMostOnce ==
    /\ Len(parsed) <= 1
    /\ DEVTREE.status = "Complete" => (Len(parsed) = 1 /\ DEVTREE.data = from_ptr(parsed[1]) /\ DEVTREE.data.ok)
    /\ \A h \in Harts : dt[h] # NoDt => (DEVTREE.status = "Complete" /\ dt[h] = DEVTREE.data)
    /\ \A h \in Harts : pc[h] = "ret_handle_dtb" => NCPU \in {dt[g].ncpus : g \in Harts}
\* a second call with another pointer, whose blob differs, got the cached tree
C2_Witness ==
    \E h \in Harts :
        /\ calls[h] = 2
        /\ Len(parsed) = 1
        /\ pc[h] = "ret_handle_dtb"
        /\ dtb[h] # parsed[1]
        /\ from_ptr(dtb[h]) # dt[h]
        /\ from_ptr(dtb[h]).ok

Slice(h) == [lo |-> STACK0 + (h + 1) * STKSZ, hi |-> STACK0 + (h + 2) * STKSZ]
\* C3: for every hart id h below 3 the slice [base + (h+1)*S, base + (h+2)*S)
\* starts at the stack pointer _start sets for h, is 16-byte aligned and is
\* disjoint from the slice of every other hart id below 3.
C3_StackSlices ==
    /\ STACK0 % 16 = 0
    /\ \A h \in Harts : (Ran(h) /\ h < StackNCPU) =>
        /\ sp[h] = Slice(h).lo
        /\ sp[h] % 16 = 0
        /\ \A g \in Harts : (Ran(g) /\ g < StackNCPU /\ g # h) =>
            /\ sp[g] = Slice(g).lo
            /\ (Slice(g).hi <= Slice(h).lo \/ Slice(h).hi <= Slice(g).lo)
\* the three harts 0, 1, 2 all have their stack pointer
C3_Witness == \A h \in 0 .. (StackNCPU - 1) : h \in Harts /\ Ran(h)

\* C4: no hart_start request targets the hart that issues it (the boot hart).
C4_NeverWakesBootHart ==
    \A k \in 1 .. Len(reqs) :
        /\ reqs[k].hartid # hartid[reqs[k].by]
        /\ reqs[k].hartid # reqs[k].by
\* the loop went past the boot hart's own id and issued requests around it
C4_Witness ==
    \E h \in Harts :
        /\ pc[h] = "wfi" /\ cas[h] = "Ok" /\ hartid[h] = 1
        /\ Len(reqs) = 2 /\ Targets = {0, 2}

\* C5: with the boot id inside [0, NCPU), start_harts has issued, at every
\* point of its loop, one request for each id below the loop position other
\* than the boot id, in ascending order; when it returns it has issued
\* exactly NCPU - 1 requests, one for each id of [0, NCPU) but the boot id.
C5_WakesAllOthers ==
    \A h \in Harts : (cas[h] = "Ok" /\ pc[h] \in {"for", "ecall", "wfi"} /\ hartid[h] < NCPU) =>
        /\ [k \in 1 .. Len(reqs) |-> reqs[k].hartid] = Ascending(0, iter[h].start, hartid[h])
        /\ pc[h] = "wfi" =>
            /\ Len(reqs) = NCPU - 1
            /\ Targets = (0 .. (NCPU - 1)) \ {hartid[h]}
\* start_harts returned after waking three other harts
C5_Witness ==
    \E h \in Harts : cas[h] = "Ok" /\ pc[h] = "wfi" /\ hartid[h] < NCPU /\ NCPU = 4 /\ Len(reqs) = 3

\* C6: every hart_start request carries the address of _start and opaque 0,
\* so a woken hart gets a1 = 0; with NCPU = 3 and boot hart 0 the requests
\* target harts 1 and 2 only.
C6_RequestArguments ==
    /\ \A k \in 1 .. Len(reqs) :
        /\ reqs[k].start_addr = StartAddr
        /\ reqs[k].opaque = 0
        /\ reqs[k].ret = "ok" => a1[reqs[k].hartid] = 0
    /\ \A h \in Harts : (cas[h] = "Ok" /\ hartid[h] = 0 /\ NCPU = 3) =>
        /\ Targets \subseteq {1, 2}
        /\ pc[h] = "wfi" => Targets = {1, 2}
\* boot hart 0 with a non-null device tree pointer woke harts 1 and 2
C6_Witness ==
    \E h \in Harts :
        /\ cas[h] = "Ok" /\ hartid[h] = 0 /\ NCPU = 3 /\ pc[h] = "wfi" /\ dtb[h] # 0
        /\ Len(reqs) = 2 /\ pc[1] = "wfi" /\ pc[2] = "wfi" /\ dtb[1] = 0 /\ dtb[2] = 0

BadTree == ~blobAt[FwDtb].ok \/ blobAt[FwDtb].nregions = 0
\* C7: when the device tree does not parse or has no memory region, the boot
\* hart goes from handle_dtb to the panic handler (message, then halt):
\* NCPU is never stored and no hart_start request is ever issued.
C7_BadTreeAborts ==
    BadTree =>
        /\ reqs = <<>>
        /\ NCPU = 0
        /\ \A h \in Harts : cas[h] = "Ok" =>
            /\ pc[h] \in {"banner1", "banner2", "banner3", "call_once", "closure", "dt_info", "panic", "halt"}
            /\ pc[h] \in {"panic", "halt"} =>
                panicinfo[h].msg = (IF blobAt[FwDtb].ok THEN "Unable to locate DRAM start" ELSE "Unable to parse device tree")
            /\ pc[h] = "halt" => (console[h].id = panicinfo[h].msg /\ console[h].sz = Sum(console[h].frags))
\* the boot hart halted on a tree that parses but has no memory region
C7_Witness ==
    \E h \in Harts : cas[h] = "Ok" /\ pc[h] = "halt" /\ blobAt[FwDtb].ok /\ blobAt[FwDtb].nregions = 0

C8_State ==
    /\ \A h \in Harts : cas[h] = "Err" =>
        /\ pc[h] \in {"secondary", "wfi"}
        /\ dt[h] = NoDt /\ iter[h] = NoIter /\ panicinfo[h] = NoPanic
        /\ pc[h] = "wfi" => console[h].id = "starting"
        /\ pc[h] = "secondary" => console[h] = NoMsg
    /\ \A k \in 1 .. Len(reqs) : cas[reqs[k].by] = "Ok"
C8_Step ==
    \A h \in Harts : (cas[h] = "Err" /\ pc'[h] # pc[h]) =>
        /\ pc[h] = "secondary" /\ pc'[h] = "wfi"
        /\ UNCHANGED <<STARTED, DEVTREE, NCPU, reqs, parsed>>
\* C8: a hart whose compare-exchange failed never enters handle_dtb, never
\* stores NCPU and never issues a hart_start request: it prints its
\* "starting" message and idles, in every interleaving with the boot hart.
C8_SecondarySkipsBoot == [](C8_State) /\ [][C8_Step]_vars
\* a loser idles while the winner is still inside handle_dtb
C8_Witness ==
    \E g, h \in Harts : cas[g] = "Ok" /\ cas[h] = "Err" /\ pc[h] = "wfi" /\ pc[g] = "info2"

\* C9 as stated: a text longer than 255 bytes is sent as its first 255 bytes.
C9_Original ==
    \A h \in Harts : console[h] # NoMsg =>
        /\ console[h].sz <= Capacity
        /\ Sum(console[h].frags) > Capacity => console[h].sz = Capacity
\* C9 (amended): a text longer than 255 bytes is cut at a fragment boundary:
\* the console write carries the leading fragments up to the first one that
\* does not fit whole, so its byte count is at most 255 and can be less; a
\* text of at most 255 bytes is sent whole; the message is never rejected.
C9_FragmentTruncation ==
    \A h \in Harts : console[h] # NoMsg =>
        LET f == console[h].frags
            n == console[h].sz IN
        /\ n <= Capacity
        /\ \E k \in 0 .. Len(f) :
            /\ n = Sum(SubSeq(f, 1, k))
            /\ k < Len(f) => n + f[k + 1] > Capacity
        /\ Sum(f) <= Capacity => n = Sum(f)
\* a model name of 300 bytes was printed: 7 bytes were sent
C9_Witness ==
    \E h \in Harts : console[h].id = "model" /\ Sum(console[h].frags) > Capacity /\ console[h].sz = 7

C10_State ==
    \A k \in 1 .. Len(reqs) : reqs[k].ret = "err" =>
        LET b == reqs[k].by IN
        /\ k = Len(reqs)
        /\ pc[b] \in {"ecall", "panic", "halt"}
        /\ pc[b] \in {"panic", "halt"} =>
            (panicinfo[b].msg = "Failed to start hart {}" /\ panicinfo[b].arg = reqs[k].hartid)
        /\ pc[b] = "halt" =>
            /\ console[b].id = "Failed to start hart {}"
            /\ console[b].arg = reqs[k].hartid
            /\ console[b].sz = Sum(console[b].frags)
C10_Step ==
    /\ \A h \in Harts : pc[h] = "halt" => pc'[h] = "halt"
    /\ (\E k \in 1 .. Len(reqs) : reqs[k].ret = "err") => reqs' = reqs
\* C10: after a failed hart_start for target t the boot hart issues no other
\* request, panics with a message that names t and stays halted; it never
\* reaches the idle wait.
C10_FailedWakeIsFatal == [](C10_State) /\ [][C10_Step]_vars
\* the second request failed after the first succeeded, and the boot hart halted
C10_Witness ==
    \E h \in Harts :
        /\ pc[h] = "halt" /\ Len(reqs) = 2 /\ reqs[1].ret = "ok" /\ reqs[2].ret = "err"
        /\ NCPU > 3 /\ console[h].arg = reqs[2].hartid

\* the positions at which a hart prints, and where it continues after it
PrintSucc ==
    [banner1 |-> "banner2", banner2 |-> "banner3", banner3 |-> "call_once",
     info1 |-> "info2", info2 |-> "info3", info3 |-> "info4", info4 |-> "store",
     ret_handle_dtb |-> "start_harts", secondary |-> "wfi", panic |-> "halt"]
C11_Step ==
    \A h \in Harts : (pc[h] \in DOMAIN PrintSucc /\ pc'[h] # pc[h]) =>
        /\ console_ret' \in SbiRets
        /\ pc'[h] = PrintSucc[pc[h]]
        /\ \A g \in Harts \ {h} : pc'[g] = pc[g]
        /\ UNCHANGED <<STARTED, DEVTREE, NCPU, cas, reqs, panicinfo, iter, dt, hartid, dtb, sp>>
C11_State ==
    \A h \in Harts : pc[h] \in {"panic", "halt"} => panicinfo[h].msg \in PanicMsgs
\* C11: the answer of firmware to a console write is ignored: whether it is
\* a success or a failure, the printing hart continues at the same place and
\* the role of every hart, the hart_start requests and the shared state are
\* left as they are; no hart ever panics over a console write.
C11_ConsoleFailureIgnored == [](C11_State) /\ [][C11_Step]_vars
\* the last print of the boot hart before start_harts failed, and it went on
C11_Witness ==
    \E h \in Harts :
        /\ cas[h] = "Ok" /\ pc[h] = "wfi" /\ console_ret = "err" /\ console[h].id = "nl"
        /\ \A g \in Harts \ {h} : console[g] = NoMsg
        /\ Len(reqs) = 2 /\ \A k \in 1 .. Len(reqs) : reqs[k].ret = "ok"

Halted(h) == pc[h] \in {"panic", "halt"}
C12_Step ==
    \A h \in Harts :
        /\ Halted(h) => Halted(h)'
        /\ pc[h] = "halt" => (pc'[h] = "halt" /\ console'[h] = console[h])
        /\ (Halted(h)' /\ pc'[h] # pc[h]) =>
            /\ UNCHANGED <<STARTED, DEVTREE, NCPU, reqs>>
            /\ \A g \in Harts \ {h} :
                /\ pc'[g] = pc[g] /\ panicinfo'[g] = panicinfo[g] /\ console'[g] = console[g]
                /\ sp'[g] = sp[g] /\ cas'[g] = cas[g] /\ dt'[g] = dt[g] /\ iter'[g] = iter[g]
\* while some hart is in the panic handler, every other running hart that
\* has not reached its idle wait or halt has a step to take
C12_State ==
    \A h \in Harts :
        (pc[h] \notin {"off", "wfi", "halt"} /\ \E g \in Harts \ {h} : Halted(g)) =>
            (ENABLED HartNext(h) \/ (pc[h] = "ecall" /\ ENABLED (sbi_hart_start_ok \/ sbi_hart_start_err)))
\* C12: a hart that enters the panic handler stays there for ever; entering
\* it and halting change neither STARTED, DEVTREE, NCPU nor anything of
\* another hart, and every other running hart still proceeds towards its
\* own idle wait or halt.
C12_FaultIsLocal == [](C12_State) /\ [][C12_Step]_vars
\* the boot hart halted on a failed request while a hart it woke idles
C12_Witness ==
    \E g, h \in Harts :
        /\ pc[g] = "halt" /\ cas[g] = "Ok" /\ Len(reqs) = 2 /\ reqs[2].ret = "err"
        /\ pc[h] = "wfi" /\ cas[h] = "Err" /\ reqs[1].hartid = h

C13_State ==
    \A h \in Harts :
        /\ pc[h] = "panic" => console[h] = NoMsg
        /\ pc[h] = "halt" =>
            LET i == panicinfo[h]
                m == console[h] IN
            /\ m.id = i.msg /\ m.arg = i.arg
            /\ m.file = (IF i.loc.some THEN i.loc.file ELSE "{unknown}")
            /\ m.line = (IF i.loc.some THEN i.loc.line ELSE 0)
            /\ m.frags = MsgLen(i) \o <<4, FileLen(m.file), 9, Digits(m.line), 1>>
            /\ m.sz = Sum(m.frags)
C13_Step ==
    \A h \in Harts : pc[h] = "halt" => (pc'[h] = "halt" /\ console'[h] = console[h])
\* C13: the panic handler emits exactly one message, "<message> in <file> at
\* line <line>", and halts; a PanicInfo without location is reported with
\* file "{unknown}" and line 0, and its message is emitted all the same.
C13_PanicMessage == [](C13_State) /\ [][C13_Step]_vars
\* a panic without location was reported
C13_Witness ==
    \E h \in Harts :
        /\ pc[h] = "halt" /\ ~panicinfo[h].loc.some
        /\ console[h].file = "{unknown}" /\ console[h].line = 0 /\ console[h].sz > 0

\* C14: the boot hart wins the exchange, prints the banner, resolves the
\* device tree, stores NCPU and only then wakes harts: whenever a hart_start
\* request has been issued, DEVTREE holds the parsed tree and NCPU is the
\* number of cpu nodes of that tree.
C14_BootOrder ==
    /\ reqs # <<>> =>
        /\ DEVTREE.status = "Complete"
        /\ DEVTREE.data = blobAt[FwDtb]
        /\ NCPU = blobAt[FwDtb].ncpus
    /\ NCPU # 0 => (DEVTREE.status = "Complete" /\ NCPU = DEVTREE.data.ncpus)
    /\ DEVTREE.status # "Incomplete" =>
        \E h \in Harts : cas[h] = "Ok" /\ pc[h] \notin {"banner1", "banner2", "banner3"}
    /\ \A h \in Harts : pc[h] \in {"start_harts", "for", "ecall"} => (cas[h] = "Ok" /\ NCPU = dt[h].ncpus)
    /\ \A h \in Harts : cas[h] = "Ok" => STARTED
\* a request was issued on a tree with four cpu nodes
C14_Witness == reqs # <<>> /\ NCPU = 4 /\ blobAt[FwDtb].ncpus = 4

SomeFailed == \E k \in 1 .. Len(reqs) : reqs[k].ret = "err"
\* C15 as stated: with a tree that resolves, every hart that entered main
\* eventually idles for ever, whatever set of harts firmware booted.
C15_Original ==
    <>[](BadTree \/ \A h \in Harts : pc[h] # "off" => pc[h] = "wfi")
C15_Final ==
    \A h \in Harts :
        /\ pc[h] \in {"off", "wfi", "halt"}
        /\ cas[h] = "Err" => pc[h] = "wfi"
        /\ pc[h] = "halt" => (BadTree \/ SomeFailed)
        /\ (cas[h] = "Ok" /\ ~BadTree /\ ~SomeFailed) => pc[h] = "wfi"
C15_State ==
    \A h \in Harts :
        /\ cas[h] = "Err" => pc[h] \in {"secondary", "wfi"}
        /\ (pc[h] = "wfi" /\ cas[h] = "Ok") => (~BadTree /\ ~SomeFailed)
\* C15 (amended): every hart that lost the exchange eventually idles and
\* stays idle; the boot hart, on a tree that resolves, eventually idles and
\* stays idle if every hart_start request succeeds, and otherwise halts in
\* the panic handler after the request that failed.
C15_Convergence ==
    /\ <>[](C15_Final)
    /\ [](C15_State)
    /\ [][\A h \in Harts : pc[h] = "wfi" => pc'[h] = "wfi"]_vars
\* the boot hart and the two harts it woke all idle
C15_Witness ==
    \E h \in Harts :
        /\ cas[h] = "Ok" /\ pc[h] = "wfi" /\ Len(reqs) = 2
        /\ \A k \in 1 .. 2 : pc[reqs[k].hartid] = "wfi"

C16_State ==
    /\ Cardinality(Pending) <= 1
    /\ \A k \in 1 .. Len(reqs) :
        /\ k < Len(reqs) => reqs[k].ret = "ok"
        /\ \A m \in 1 .. Len(reqs) : k < m => reqs[k].hartid < reqs[m].hartid
        /\ \A i \in 0 .. (reqs[k].hartid - 1) : i # hartid[reqs[k].by] =>
            \E m \in 1 .. (k - 1) : reqs[m].hartid = i /\ reqs[m].ret = "ok"
C16_Step ==
    Len(reqs') > Len(reqs) =>
        /\ Pending = {}
        /\ Len(reqs') = Len(reqs) + 1
        /\ \A k \in 1 .. Len(reqs) : reqs[k].ret = "ok"
\* C16: hart_start requests are issued one at a time in ascending order of
\* target: at most one is outstanding, and the request for an id is issued
\* only after the requests for all smaller ids but the boot id returned Ok.
C16_OneAtATimeAscending == [](C16_State) /\ [][C16_Step]_vars
\* the third request is outstanding after two that succeeded
C16_Witness == Len(reqs) = 3 /\ reqs[3].ret = "pending" /\ reqs[1].ret = "ok" /\ reqs[2].ret = "ok"

Pool == [lo |-> STACK0, hi |-> STACK0 + StackNCPU * STKSZ]
\* C17: every hart that runs main has its stack top STACK0 + (id+1)*STKSZ
\* inside the pool [STACK0, STACK0 + 3*STKSZ], whatever cpu count the device
\* tree reports.
C17_StackTopInPool ==
    \A h \in Harts : Ran(h) =>
        /\ sp[h] = STACK0 + (h + 1) * STKSZ
        /\ Pool.lo <= sp[h] /\ sp[h] <= Pool.hi

\* C18: only the hart that won the exchange issues hart_start requests, and
\* no hart id is the target of two requests.
C18_OnlyBootHartWakes ==
    /\ \A k \in 1 .. Len(reqs) : cas[reqs[k].by] = "Ok" /\ reqs[k].by \in Winners
    /\ \A k, m \in 1 .. Len(reqs) : k # m => reqs[k].hartid # reqs[m].hartid
    /\ \A h \in Harts : cas[h] # "Ok" => (iter[h] = NoIter /\ pc[h] \notin {"start_harts", "for", "ecall"})
\* two requests were issued while a hart that lost the exchange idles
C18_Witness ==
    \E h \in Harts :
        /\ cas[h] = "Err" /\ a1[h] = FwDtb /\ pc[h] = "wfi"
        /\ Len(reqs) = 2

====
